---- MODULE Spec2Model ----
(***************************************************************************)
(* Model of name_generator.py: module start-up (credential check, client   *)
(* creation), extract_text, generate_creative_names and main.              *)
(*                                                                         *)
(* Python strings are TLA+ strings.  Every other Python value is a tagged  *)
(* record: the value of an attribute is Absent (the object has no such     *)
(* attribute), Raises (reading it raises an exception that is not an       *)
(* AttributeError), None, a str, an int, a list or an object.              *)
(***************************************************************************)
EXTENDS Integers, Sequences, FiniteSets, TLC

VARIABLES
    pc,       \* position of the run
    environ,  \* os.environ["GEMINI_API_KEY"]: None when unset, else a str
    dotenv,   \* the GEMINI_API_KEY entry of the .env file: None or a str
    sdk,      \* whether the google-genai package can be imported
    API_KEY,  \* the module global API_KEY
    client,   \* the module global client: None until it is created
    stdin,    \* the lines the user will type
    nread,    \* how many of them input() has consumed
    stdout,   \* the lines printed so far
    sent,     \* the generate_content requests issued so far
    remote,   \* what the service did with the request: None before a call
    args,     \* the arguments of the function under call
    result,   \* what it returned or raised: None before it has
    error     \* the uncaught exception that ended the process, or None

vars == <<pc, environ, dotenv, sdk, API_KEY, client, stdin, nread, stdout,
          sent, remote, args, result, error>>

-----------------------------------------------------------------------------
(* Bounds of the model *)

\* longest list of parts in a candidate's content
MaxParts == 2
\* the counts passed to generate_creative_names range over MinCount..MaxCount
MaxCount == 23
\* how far below 1 they go
MaxBelow == 4
MinCount == 1 - MaxBelow

-----------------------------------------------------------------------------
(* Python values *)

Absent == [k |-> "absent"]
Raises == [k |-> "raises"]
None == [k |-> "none"]
Str(s) == [k |-> "str", v |-> s]
IntV(n) == [k |-> "int", v |-> n]
List(q) == [k |-> "list", v |-> q]

\* outcomes of evaluating a piece of code
Ret(s) == [k |-> "ret", v |-> s]
Exc(type, msg) == [k |-> "exc", type |-> type, msg |-> msg]
Fall == [k |-> "fall"]

\* the exception a Raises attribute throws when it is read
PropertyError == Exc("RuntimeError", "boom")

\* getattr: an attribute of a value that is not an object does not exist
AttrOf(obj, name) ==
    IF obj.k = "obj" /\ name \in DOMAIN obj THEN obj[name] ELSE Absent

\* bool(x)
Truthy(x) ==
    CASE x.k = "none" -> FALSE
      [] x.k = "str" -> x.v # ""
      [] x.k = "int" -> x.v # 0
      [] x.k = "list" -> Len(x.v) # 0
      [] OTHER -> TRUE

\* str(x) of a str or an int
PyStr(x) == IF x.k = "str" THEN x.v ELSE ToString(x.v)

\* the characters str.strip() removes
Whitespace == {" ", "\n", "\t", "\r"}

IsSpaceAt(s, i) == SubSeq(s, i, i) \in Whitespace

\* str.strip()
strip(s) ==
    LET keep == {i \in 1..Len(s) : ~IsSpaceAt(s, i)}
    IN  IF keep = {} THEN ""
        ELSE LET lo == CHOOSE i \in keep : \A j \in keep : i <= j
                 hi == CHOOSE i \in keep : \A j \in keep : j <= i
             IN  SubSeq(s, lo, hi)

\* "\n".join(q) for a sequence q of strings
RECURSIVE JoinLines(_)
JoinLines(q) ==
    IF Len(q) = 0 THEN ""
    ELSE IF Len(q) = 1 THEN q[1]
    ELSE q[1] \o "\n" \o JoinLines(Tail(q))

-----------------------------------------------------------------------------
(* extract_text *)

\* x.strip() of a truthy attribute value x
StripOf(x) ==
    IF x.k = "str" THEN Ret(strip(x.v))
    ELSE Exc("AttributeError", "'int' object has no attribute 'strip'")

\* the loop over content.parts: the values appended to out, or the
\* exception that reading a part raised
RECURSIVE CollectParts(_)
CollectParts(ps) ==
    IF Len(ps) = 0 THEN [k |-> "ok", v |-> <<>>]
    ELSE
      LET p == Head(ps)
          t == AttrOf(p, "text")
          c == AttrOf(p, "content")
          rest == CollectParts(Tail(ps))
          here ==
            IF t.k = "raises" THEN PropertyError
            ELSE IF t.k # "absent" /\ Truthy(t) THEN [k |-> "ok", v |-> <<t>>]
            ELSE IF c.k = "raises" THEN PropertyError
            ELSE IF c.k # "absent" /\ Truthy(c)
                 THEN [k |-> "ok", v |-> <<Str(PyStr(c))>>]
            ELSE [k |-> "ok", v |-> <<>>]
      IN  IF here.k = "exc" THEN here
          ELSE IF rest.k = "exc" THEN rest
          ELSE [k |-> "ok", v |-> here.v \o rest.v]

\* "\n".join(out).strip(): join raises TypeError on an item that is no str
JoinOut(out) ==
    IF \E i \in 1..Len(out) : out[i].k # "str"
    THEN Exc("TypeError", "sequence item: expected str instance")
    ELSE Ret(strip(JoinLines([i \in 1..Len(out) |-> out[i].v])))

\* lines 48-56: the parts of the content
FromParts(content) ==
    LET ps == AttrOf(content, "parts")
    IN  IF ps.k = "raises" THEN PropertyError
        ELSE IF ps.k = "absent" THEN Fall
        ELSE IF ps.k # "list"
             THEN Exc("TypeError", "object is not iterable")
        ELSE LET out == CollectParts(ps.v)
             IN  IF out.k = "exc" THEN out
                 ELSE IF Len(out.v) = 0 THEN Fall
                 ELSE JoinOut(out.v)

\* lines 58-59: the text of the content
FromContentText(content) ==
    LET t == AttrOf(content, "text")
    IN  IF t.k = "raises" THEN PropertyError
        ELSE IF t.k # "absent" /\ Truthy(t) THEN StripOf(t)
        ELSE Fall

\* lines 46-59: the first candidate
FromCandidate(cand) ==
    LET content == AttrOf(cand, "content")
    IN  IF content.k = "raises" THEN PropertyError
        ELSE IF content.k = "absent" THEN Fall
        ELSE LET viaParts == FromParts(content)
             IN  IF viaParts.k # "fall" THEN viaParts
                 ELSE FromContentText(content)

\* lines 43-59: the body of the try statement
TryBody(response) ==
    LET cs == AttrOf(response, "candidates")
    IN  IF cs.k = "raises" THEN PropertyError
        ELSE IF cs.k = "absent" THEN Fall
        ELSE IF cs.k # "list"
             THEN Exc("TypeError", "object is not subscriptable")
        ELSE IF Len(cs.v) = 0
             THEN Exc("IndexError", "list index out of range")
        ELSE FromCandidate(cs.v[1])

\* lines 64-68: str(response), or the sentinel when str raises
FinalFallback(response) ==
    IF response.str.k = "str" THEN Ret(response.str.v)
    ELSE Ret("NO_TEXT_FOUND")

\* extract_text with the direct text field looked at after the candidates
extract_text_candidates_first(response) ==
    LET s == TryBody(response)
        t == AttrOf(response, "text")
    IN  IF s.k = "ret" THEN s
        ELSE IF t.k = "raises" THEN PropertyError
        ELSE IF t.k # "absent" /\ Truthy(t) THEN StripOf(t)
        ELSE FinalFallback(response)

\* extract_text reading the last candidate instead of the first
extract_text_last_candidate(response) ==
    LET t == AttrOf(response, "text")
        cs == AttrOf(response, "candidates")
        s == IF cs.k = "list" /\ Len(cs.v) > 0
             THEN FromCandidate(cs.v[Len(cs.v)])
             ELSE TryBody(response)
    IN  IF t.k = "raises" THEN PropertyError
        ELSE IF t.k # "absent" /\ Truthy(t) THEN StripOf(t)
        ELSE IF s.k = "ret" THEN s
        ELSE FinalFallback(response)

extract_text(response) ==
    LET t == AttrOf(response, "text")
    IN  IF t.k = "raises" THEN PropertyError
        ELSE IF t.k # "absent" /\ Truthy(t) THEN StripOf(t)
        ELSE LET s == TryBody(response)
             IN  IF s.k = "ret" THEN s
                 ELSE FinalFallback(response)

-----------------------------------------------------------------------------
(* generate_creative_names *)

MODEL_NAME == "gemini-2.0-flash"

Max(a, b) == IF a >= b THEN a ELSE b
Min(a, b) == IF a <= b THEN a ELSE b

\* line 94 with the upper limit off by one
clamp_to_21(count) == Max(1, Min(count, 21))

\* line 94
clamp(count) == Max(1, Min(count, 20))

\* line 104 testing "constraints is not None" instead of its truth value
constraint_text_not_none(constraints) ==
    IF constraints.k # "none" THEN "Constraints: " \o constraints.v \o "."
    ELSE ""

\* line 104
constraint_text(constraints) ==
    IF Truthy(constraints) THEN "Constraints: " \o constraints.v \o "."
    ELSE ""

\* lines 97-102
system_instruction ==
    "You are a world-class naming expert. ALWAYS be concise. "
    \o "Each name + explanation must be UNDER 8 words total. "
    \o "Only output the numbered list in the exact format. "
    \o "Follow all user constraints softly but prioritize quality."

\* lines 107-114 (the dash of lines 111-112 is written "--")
prompt(name_type, theme, count, constraints) ==
    "Generate exactly " \o ToString(count) \o " creative " \o name_type
    \o " for the theme: \"" \o theme \o "\".\n"
    \o constraint_text(constraints) \o "\n\n"
    \o "Strict output format:\n"
    \o "1. NAME -- Etymology/Meaning: ... | Why it works: ...\n"
    \o "2. NAME -- ...\n"
    \o "Only the numbered list."

\* lines 117-121 and 127-131: the request handed to generate_content
Request(a) ==
    [model |-> MODEL_NAME,
     contents |-> prompt(a.name_type, a.theme, clamp(a.count), a.constraints),
     config |-> [system_instruction |-> system_instruction,
                 temperature |-> a.temperature,
                 max_output_tokens |-> 800]]

\* line 134
ApiError(msg) == Ret("API Error: Failed to generate content: " \o msg)

\* lines 125-134: what the function returns once the service has answered rem
Returned(rem) ==
    IF rem.k = "raises" THEN ApiError(rem.msg)
    ELSE LET e == extract_text(rem.response)
         IN  IF e.k = "exc" THEN ApiError(e.msg) ELSE e

\* generate_creative_names that issues the call again after a failed one
generate_with_retry(a, rem) ==
    [stdout |-> <<"Sending request to " \o MODEL_NAME \o "...">>,
     sent |-> IF rem.k = "raises" THEN <<Request(a), Request(a)>>
              ELSE <<Request(a)>>,
     result |-> Returned(rem)]

\* generate_creative_names whose error string leaves the message out
generate_without_message(a, rem) ==
    [stdout |-> <<"Sending request to " \o MODEL_NAME \o "...">>,
     sent |-> <<Request(a)>>,
     result |-> IF rem.k = "raises" THEN ApiError("") ELSE Returned(rem)]

\* generate_creative_names(**a) when the service answers the request with
\* rem: the lines printed, the requests issued and the value returned
generate_creative_names(a, rem) ==
    [stdout |-> <<"Sending request to " \o MODEL_NAME \o "...">>,
     sent |-> <<Request(a)>>,
     result |-> Returned(rem)]

-----------------------------------------------------------------------------
(* Module start-up and main *)

\* line 12 testing "API_KEY is None" instead of its truth value
KeyMissingOnlyNone(key) == key.k = "none"

\* line 12: not API_KEY
KeyMissing(key) == ~Truthy(key)

\* line 8: load_dotenv() puts the entry of the .env file into the
\* environment unless the variable is already set there
load_dotenv(env, file) == IF env.k = "none" THEN file ELSE env

Banner ==
    <<"\n=== Gemini API Creative Name Generator ===\n",
      "This script connects to the Gemini model to brainstorm names.\n">>

RequiredMessage == "\nType and Theme are required. Exiting."

\* lines 147-154: the arguments main builds from the three lines typed
MainArgs(lines) ==
    [name_type |-> lines[1],
     theme |-> lines[2],
     count |-> 5,
     constraints |-> IF strip(lines[3]) # "" THEN Str(strip(lines[3]))
                     ELSE None,
     temperature |-> "0.9"]

\* lines 141-172: main() on the typed lines when the service would answer
\* rem: the lines printed, the requests issued, the value generate returned
main(lines, rem) ==
    LET a == MainArgs(lines)
        g == generate_creative_names(a, rem)
    IN  IF a.name_type = "" \/ a.theme = ""
        THEN [stdout |-> Banner \o <<RequiredMessage>>,
              sent |-> <<>>,
              called |-> FALSE,
              result |-> None]
        ELSE [stdout |-> Banner \o <<"\nGenerating...\n">> \o g.stdout
                         \o <<g.result.v, "\n=== GENERATION COMPLETE ===\n">>,
              sent |-> g.sent,
              called |-> TRUE,
              result |-> g.result]

-----------------------------------------------------------------------------
(* The values the runs are started on *)

Part(text, content) == [k |-> "obj", text |-> text, content |-> content]
Content(parts, text) == [k |-> "obj", parts |-> parts, text |-> text]
Candidate(content) == [k |-> "obj", content |-> content]
Response(text, candidates, str) ==
    [k |-> "obj", text |-> text, candidates |-> candidates, str |-> str]

Parts ==
    {Part(t, Absent) : t \in {Absent, Str("A"), Str(" B"), IntV(7), Raises}}
    \cup {Part(Absent, Str("X")), Part(Str(""), IntV(7)),
          Part(Str("A"), Str("X"))}

PartLists == UNION {[1..n -> Parts] : n \in 0..MaxParts}

Contents ==
    {Content(ps, t) :
        ps \in {Absent, None} \cup {List(q) : q \in PartLists},
        t \in {Absent, Str(""), Str(" T ")}}

Candidates == {None} \cup {Candidate(c) : c \in {Absent, None} \cup Contents}

\* a second candidate, which extract_text never reads
OtherCandidate ==
    Candidate(Content(List(<<Part(Str("Z"), Absent)>>), Absent))

CandidateLists ==
    {Absent, None, Raises, List(<<>>)}
    \cup {List(<<c>>) : c \in Candidates}
    \cup {List(<<c, OtherCandidate>>) : c \in Candidates}

DirectTexts ==
    {Absent, None, Raises, IntV(7),
     Str(""), Str("Foo"), Str(" Foo\n"), Str("  ")}

Responses ==
    {Response(t, cs, s) :
        t \in DirectTexts, cs \in CandidateLists,
        s \in {Str("<response>"), Raises}}

\* the responses the service gives in the runs of generate_creative_names
ServiceResponses ==
    {Response(Str(" 1. Zed -- short\n"), Absent, Str("<response>")),
     Response(None,
              List(<<Candidate(Content(List(<<Part(Str("A"), Absent),
                                              Part(Str("B"), Absent)>>),
                                       Absent))>>),
              Str("<response>")),
     Response(IntV(7), Absent, Str("<response>")),
     Response(Absent, Absent, Str("<response>")),
     Response(Absent, List(<<>>), Raises)}

Remotes ==
    {[k |-> "returns", response |-> r] : r \in ServiceResponses}
    \cup {[k |-> "raises", msg |-> m] : m \in {"timeout", "", "503 UNAVAILABLE"}}

GenArgs ==
    [name_type : {"company names", "character names"},
     theme : {"AI startups", "Space Opera"},
     count : MinCount..MaxCount,
     constraints : {None, Str(""), Str(" "), Str("must start with Z")},
     temperature : {"0.9"}]

TypedLines ==
    {<<n, t, c>> :
        n \in {"", " ", "company names"},
        t \in {"", "  ", "AI startups"},
        c \in {"", "  ", " must start with Z "}}

KeyValues == {None, Str(""), Str("secret")}

-----------------------------------------------------------------------------
(* The program: python name_generator.py *)

Init ==
    /\ pc = "start"
    /\ environ \in KeyValues
    /\ dotenv \in KeyValues
    /\ sdk \in BOOLEAN
    /\ API_KEY = None
    /\ client = None
    /\ stdin \in TypedLines
    /\ nread = 0
    /\ stdout = <<>>
    /\ sent = <<>>
    /\ remote = None
    /\ args = None
    /\ result = None
    /\ error = None

\* lines 8-27: the module body
Startup ==
    /\ pc = "start"
    /\ LET key == load_dotenv(environ, dotenv)
       IN  /\ environ' = key
           /\ API_KEY' = key
           /\ IF KeyMissing(key)
              THEN /\ error' = Exc("EnvironmentError",
                          "Missing GEMINI_API_KEY in .env file. Please create one.")
                   /\ pc' = "aborted"
                   /\ client' = client
              ELSE IF ~sdk
              THEN /\ error' = Exc("ImportError",
                          "The Google GenAI SDK is not installed. ")
                   /\ pc' = "aborted"
                   /\ client' = client
              ELSE /\ error' = error
                   /\ pc' = "ready"
                   /\ client' = [k |-> "obj", api_key |-> key.v]
    /\ UNCHANGED <<dotenv, sdk, stdin, nread, stdout, sent, remote, args,
                   result>>

\* lines 175-176: main() runs to its end
RunMain ==
    /\ pc = "ready"
    /\ \E rem \in Remotes :
          \E m \in {main(stdin, rem)} :
              /\ nread' = 3
              /\ stdout' = stdout \o m.stdout
              /\ sent' = sent \o m.sent
              /\ remote' = IF m.called THEN rem ELSE None
              /\ args' = IF m.called THEN MainArgs(stdin) ELSE None
              /\ result' = m.result
    /\ pc' = "done"
    /\ UNCHANGED <<environ, dotenv, sdk, API_KEY, client, stdin, error>>

Next == Startup \/ RunMain

Spec == Init /\ [][Next]_vars

\* the interpreter runs the module body and main without stopping in between
FairSpec == Spec /\ WF_vars(Next)

-----------------------------------------------------------------------------
(* generate_creative_names called on its own *)

Loaded ==
    /\ environ = Str("secret")
    /\ dotenv = None
    /\ sdk = TRUE
    /\ API_KEY = Str("secret")
    /\ client = [k |-> "obj", api_key |-> "secret"]
    /\ stdin = <<>>
    /\ nread = 0
    /\ stdout = <<>>
    /\ sent = <<>>
    /\ remote = None
    /\ result = None
    /\ error = None

InitGen ==
    /\ pc = "generate"
    /\ args \in GenArgs
    /\ Loaded

Generate ==
    /\ pc = "generate"
    /\ \E rem \in Remotes :
          \E g \in {generate_creative_names(args, rem)} :
              /\ stdout' = stdout \o g.stdout
              /\ sent' = sent \o g.sent
              /\ remote' = rem
              /\ result' = g.result
    /\ pc' = "returned"
    /\ UNCHANGED <<environ, dotenv, sdk, API_KEY, client, stdin, nread, args,
                   error>>

NextGen == Generate

SpecGen == InitGen /\ [][NextGen]_vars

-----------------------------------------------------------------------------
(* extract_text called on its own *)

InitExtract ==
    /\ pc = "extract"
    /\ args \in {[response |-> r] : r \in Responses}
    /\ Loaded

Extract ==
    /\ pc = "extract"
    /\ result' = extract_text(args.response)
    /\ pc' = "extracted"
    /\ UNCHANGED <<environ, dotenv, sdk, API_KEY, client, stdin, nread,
                   stdout, sent, remote, args, error>>

NextExtract == Extract

SpecExtract == InitExtract /\ [][NextExtract]_vars

-----------------------------------------------------------------------------
(* Properties *)

\* s.startswith(p)
StartsWith(s, p) == Len(p) <= Len(s) /\ SubSeq(s, 1, Len(p)) = p

\* p in s
Contains(s, p) ==
    \E i \in 1..(Len(s) - Len(p) + 1) : SubSeq(s, i, i + Len(p) - 1) = p

\* r is s without its leading and trailing whitespace
IsTrimOf(r, s) ==
    \E i \in 0..Len(s) : \E j \in i..Len(s) :
        /\ r = SubSeq(s, i + 1, j)
        /\ \A n \in (1..i) \cup ((j + 1)..Len(s)) : IsSpaceAt(s, n)
        /\ i < j => ~IsSpaceAt(s, i + 1) /\ ~IsSpaceAt(s, j)

\* the response has no non-empty direct text field
NoDirectText(r) == r.text \in {Absent, None, Str("")}

\* the response has a first candidate whose content has a list of parts
HasParts(r) ==
    /\ r.candidates.k = "list"
    /\ Len(r.candidates.v) > 0
    /\ r.candidates.v[1].k = "obj"
    /\ r.candidates.v[1].content.k = "obj"
    /\ r.candidates.v[1].content.parts.k = "list"

FirstParts(r) == r.candidates.v[1].content.parts.v

\* the part carries text
CarriesText(p) == p.text.k = "str" /\ p.text.v # ""

\* the part can be read without an error and its text, if any, is a str
WellFormed(p) ==
    /\ p.text.k \in {"absent", "none", "str"}
    /\ p.content.k \in {"absent", "none", "str", "int"}

\* no direct text, and a first candidate whose parts are all well formed and
\* of which at least one carries text
TextInWellFormedParts(r) ==
    /\ NoDirectText(r)
    /\ HasParts(r)
    /\ \A i \in 1..Len(FirstParts(r)) : WellFormed(FirstParts(r)[i])
    /\ \E i \in 1..Len(FirstParts(r)) : CarriesText(FirstParts(r)[i])

\* the texts of the parts of ps that carry text, in order
RECURSIVE TextsOf(_)
TextsOf(ps) ==
    IF Len(ps) = 0 THEN <<>>
    ELSE (IF CarriesText(Head(ps)) THEN <<Head(ps).text.v>> ELSE <<>>)
         \o TextsOf(Tail(ps))

\* the same, a part without text giving its non-empty "content" stringified
RECURSIVE TextsOrContentsOf(_)
TextsOrContentsOf(ps) ==
    IF Len(ps) = 0 THEN <<>>
    ELSE (IF CarriesText(Head(ps)) THEN <<Head(ps).text.v>>
          ELSE IF Head(ps).content.k = "str" /\ Head(ps).content.v # ""
          THEN <<Head(ps).content.v>>
          ELSE IF Head(ps).content.k = "int" /\ Head(ps).content.v # 0
          THEN <<ToString(Head(ps).content.v)>>
          ELSE <<>>)
         \o TextsOrContentsOf(Tail(ps))

\* C1: extract_text never propagates an error: whatever the shape of the
\* response, it returns a string.
C1_NeverPropagates ==
    pc = "extracted" => result.k = "ret"

\* C2: when name_type or theme is empty after trimming, main prints that
\* type and theme are required and issues no request.
C2_BlankFieldNoCall ==
    (pc = "done" /\ (strip(stdin[1]) = "" \/ strip(stdin[2]) = ""))
        => /\ sent = <<>>
           /\ \E i \in 1..Len(stdout) : stdout[i] = RequiredMessage

\* C3: when the remote call raises an exception with message m,
\* generate_creative_names returns "API Error: Failed to generate content: "
\* followed by m.
C3_ErrorString ==
    (pc = "returned" /\ remote.k = "raises")
        => result = Ret("API Error: Failed to generate content: " \o remote.msg)

C3_Witness ==
    /\ pc = "returned"
    /\ remote = [k |-> "raises", msg |-> "timeout"]
    /\ result = Ret("API Error: Failed to generate content: timeout")

\* C4: when the remote call returns a response, generate_creative_names
\* returns a product of the extraction and never a string that begins with
\* "API Error:".
C4_ExtractionNeverSurfaced ==
    (pc = "returned" /\ remote.k = "returns")
        => result.k = "ret" /\ ~StartsWith(result.v, "API Error:")

\* C5: the count in the prompt sent is the count passed, raised to 1 when
\* below 1 and lowered to 20 when above 20.
C5_ClampedCount ==
    pc = "returned"
        => /\ Len(sent) = 1
           /\ \E c \in 1..20 :
                 /\ args.count < 1 => c = 1
                 /\ args.count > 20 => c = 20
                 /\ args.count \in 1..20 => c = args.count
                 /\ StartsWith(sent[1].contents,
                        "Generate exactly " \o ToString(c) \o " creative ")

C5_Witness ==
    /\ pc = "returned"
    /\ args.count > 20
    /\ StartsWith(sent[1].contents, "Generate exactly 20 creative ")

\* C6: when the response has a non-empty direct text field, extract_text
\* returns that text trimmed, whatever the candidates are.
C6_DirectTextFirst ==
    (pc = "extracted" /\ args.response.text.k = "str"
                      /\ args.response.text.v # "")
        => result.k = "ret" /\ IsTrimOf(result.v, args.response.text.v)

C6_Witness ==
    /\ pc = "extracted"
    /\ args.response.text = Str(" Foo\n")
    /\ HasParts(args.response)
    /\ \E i \in 1..Len(FirstParts(args.response)) :
          CarriesText(FirstParts(args.response)[i])
    /\ result = Ret("Foo")

\* C7 as claimed, on the responses whose parts are all well formed: with no
\* direct text and a first candidate of which a part carries text,
\* extract_text returns the texts of the parts that carry text, joined by
\* newlines and trimmed.
C7_OnlyPartTexts ==
    (pc = "extracted" /\ TextInWellFormedParts(args.response))
        => /\ result.k = "ret"
           /\ IsTrimOf(result.v, JoinLines(TextsOf(FirstParts(args.response))))

\* C7 amended: with no direct text and a first candidate whose parts are all
\* well formed and of which one carries text, extract_text returns, in the
\* order of the parts, the text of each part that carries text and the
\* stringified non-empty "content" of each part that does not, joined by
\* newlines and trimmed; later candidates do not contribute and the
\* stringified response is not returned.
C7_PartTextsOrContents ==
    (pc = "extracted" /\ TextInWellFormedParts(args.response))
        => /\ result.k = "ret"
           /\ IsTrimOf(result.v,
                  JoinLines(TextsOrContentsOf(FirstParts(args.response))))
           /\ args.response.str.k = "str" => result.v # args.response.str.v

C7_Witness ==
    /\ pc = "extracted"
    /\ args.response.text = Absent
    /\ HasParts(args.response)
    /\ Len(args.response.candidates.v) = 2
    /\ FirstParts(args.response)
           = <<Part(Str(" B"), Absent), Part(Absent, Str("X"))>>
    /\ result = Ret("B\nX")

\* C8: a run issues at most one request; a run that starts up and is given
\* both fields issues exactly one, also when the call fails, prints the
\* string returned and ends.
C8_OneRequest ==
    /\ [](Len(sent) <= 1)
    /\ []((pc = "done" /\ stdin[1] # "" /\ stdin[2] # "")
            => /\ Len(sent) = 1
               /\ result.k = "ret"
               /\ Len(stdout) >= 2
               /\ stdout[Len(stdout) - 1] = result.v)
    /\ <>(pc \in {"done", "aborted"})
    /\ [][pc \notin {"done", "aborted"}]_vars

C8_Witness ==
    /\ pc = "done"
    /\ remote = [k |-> "raises", msg |-> "timeout"]
    /\ Len(sent) = 1
    /\ stdout[Len(stdout) - 1] = "API Error: Failed to generate content: timeout"

\* C9: when GEMINI_API_KEY is unset or empty once the .env file has been
\* loaded, the process aborts with no client created, no input read, nothing
\* printed and no request issued.
C9_FailFast ==
    (pc # "start" /\ API_KEY \in {None, Str("")})
        => /\ pc = "aborted"
           /\ error.k = "exc"
           /\ error.type = "EnvironmentError"
           /\ client = None
           /\ nread = 0
           /\ stdout = <<>>
           /\ sent = <<>>

C9_Witness ==
    /\ pc = "aborted"
    /\ environ = Str("")
    /\ dotenv = Str("secret")
    /\ error.type = "EnvironmentError"
    /\ client = None

\* C10: the prompt has the clause "Constraints: <constraints>." exactly
\* when constraints is neither None nor empty.
C10_ConstraintsClause ==
    pc = "returned"
        => /\ Contains(sent[1].contents, "Constraints:")
                <=> (args.constraints # None /\ args.constraints.v # "")
           /\ (args.constraints # None /\ args.constraints.v # "")
                => Contains(sent[1].contents,
                       "Constraints: " \o args.constraints.v \o ".")

C10_Witness ==
    /\ pc = "returned"
    /\ args.constraints = Str("must start with Z")
    /\ Contains(sent[1].contents, "Constraints: must start with Z.")

====
